---------------------------- MODULE Spec2Model ----------------------------
(***************************************************************************)
(* A model of the query-time core of simplex-kg-rag-system:                *)
(*   - BYOKGRAGPipeline.process_query (src/src/core/orchestrator.py),      *)
(*     the bounded refinement loop with synthesis and comparison;          *)
(*   - GraphRetriever.retrieve_all and _execute_cypher                     *)
(*     (src/src/core/graph_retriever.py);                                  *)
(*   - LLMCache and CachedOpenAIClient (src/src/core/llm_cache.py).        *)
(* Three specifications share the variables: Spec (the pipeline),          *)
(* SpecCypher (the declarative query sandbox) and SpecCache (the response  *)
(* cache).  Each leaves the other parts' variables at their initial value. *)
(***************************************************************************)
EXTENDS Integers, Sequences, FiniteSets, TLC

VARIABLES
    \* ---- BYOKGRAGPipeline.process_query ----
    pc,                   \* position of process_query
    max_iterations,       \* self.max_iterations
    iteration,            \* the loop variable of "for iteration in range(...)"
    accumulated_context,  \* list of context bundles
    iteration_metadata,   \* list of per-round records
    all_retrieved_facts,  \* set of strings
    baseline_answer,      \* text returned by _get_baseline_answer
    kg_output,            \* the analyzer's output of the current round
    retrieval_results,    \* retrieve_all's output of the current round
    kg_answer,            \* {"answer", "boq"} of _generate_kg_enhanced_answer
    compare_reply,        \* the evaluator's reply read by _compare_answers
    result,               \* the BYOKGRAGResult returned, or NoResult
    completion_calls,     \* the chat.completions.create calls issued, in order
    \* ---- GraphRetriever._execute_cypher and the graph store ----
    called_query,         \* the query text of the last _execute_cypher call
    called_results,       \* the list that call returned
    store_request,        \* the text that call sent to session.run, or NoRequest
    store_requests,       \* how many requests the store has received
    graph_mutated,        \* has the store executed an updating clause
    \* ---- LLMCache and CachedOpenAIClient ----
    files,                \* the cache directory: cache key -> file
    now,                  \* time.time()
    stats,                \* self.stats
    ttl_seconds,          \* self.ttl_seconds
    max_cache_size_bytes, \* self.max_cache_size_bytes
    last_call,            \* the last cache operation and what it did
    stored,               \* per request, what its last storing call stored
    calls,                \* how many operations the cache has served
    \* ---- one call of a function studied on its own ----
    given,                \* the arguments and the environment of the call, or the object under study
    returned              \* what the call returned, or NotCalled

pipeVars == <<pc, max_iterations, iteration, accumulated_context,
              iteration_metadata, all_retrieved_facts, baseline_answer,
              kg_output, retrieval_results, kg_answer, compare_reply, result,
              completion_calls>>

cypherVars == <<called_query, called_results, store_request, store_requests,
                graph_mutated>>

cacheVars == <<files, now, stats, ttl_seconds, max_cache_size_bytes, last_call,
               stored, calls>>

fnVars == <<given, returned>>

vars == <<pipeVars, cypherVars, cacheVars, fnVars>>

-----------------------------------------------------------------------------
(* Bounds *)

MaxIter == 3
\* requests the graph store receives in one run of the query sandbox
MaxRequests == 2

-----------------------------------------------------------------------------
(* Python text of evidence payloads.  A payload is a dict, modelled as the  *)
(* sequence of its <<key, value>> pairs in insertion order; keys and values *)
(* are strings.                                                             *)

\* repr() of a str
PyRepr(s) == "'" \o s \o "'"

RECURSIVE JoinComma(_)
JoinComma(parts) ==
    IF parts = <<>> THEN ""
    ELSE IF Len(parts) = 1 THEN parts[1]
    ELSE parts[1] \o ", " \o JoinComma(Tail(parts))

\* str(item) for a dict: "{'k': 'v', ...}" in insertion order
StrDict(item) ==
    "{" \o JoinComma([i \in 1..Len(item) |->
                        PyRepr(item[i][1]) \o ": " \o PyRepr(item[i][2])]) \o "}"

\* The keys of the payload universe in Python's string order
KeyOrder == <<"data", "device", "match_type", "mention", "p.capacity", "p.sku",
              "panel", "path", "relationship", "source", "target">>

KeyRank(k) == CHOOSE i \in 1..Len(KeyOrder) : KeyOrder[i] = k

RECURSIVE InsertSorted(_, _)
InsertSorted(pair, sorted) ==
    IF sorted = <<>> THEN <<pair>>
    ELSE IF KeyRank(pair[1]) < KeyRank(sorted[1][1]) THEN <<pair>> \o sorted
    ELSE <<sorted[1]>> \o InsertSorted(pair, Tail(sorted))

RECURSIVE SortedItems(_)
\* sorted(item.items()): the pairs ordered by key (keys are unique)
SortedItems(item) ==
    IF item = <<>> THEN <<>>
    ELSE InsertSorted(item[1], SortedItems(Tail(item)))

\* str(list of 2-tuples): "[('k', 'v'), ...]"
StrPairList(pairs) ==
    "[" \o JoinComma([i \in 1..Len(pairs) |->
                        "(" \o PyRepr(pairs[i][1]) \o ", " \o PyRepr(pairs[i][2]) \o ")"])
        \o "]"

\* the signature _filter_valuable_data looks up in the seen set
Signature(item) == StrPairList(SortedItems(item))

\* the string process_query records in all_retrieved_facts
FactString(item) == StrDict(item)


-----------------------------------------------------------------------------
(* The evidence the graph store can hand back, one payload shape per       *)
(* retrieval method (graph_retriever.py builds exactly these dicts).       *)

\* link_entities: {"mention", "data", "match_type"}
LinkedA == << <<"mention", "4098-9714">>, <<"data", "node 4098-9714">>,
              <<"match_type", "exact">> >>
\* _retrieve_paths: {"path", "data"}
PathA == << <<"path", "path_type: panel_capacity_analysis">>,
            <<"data", "n0: 4007ES">> >>
\* _execute_cypher: a row of the find_compatible_panel query
RowCap == << <<"p.sku", "4007ES">>, <<"p.capacity", "159 points">> >>
\* _execute_cypher: a row of the complete_system_compatibility query
RowPlain == << <<"panel", "4007ES">>, <<"device", "4098-9714">> >>
\* _retrieve_triplets: {"source", "relationship", "target"}
TripA == << <<"source", "node 4098-9714">>, <<"relationship", "REQUIRES_BASE">>,
            <<"target", "node 4098-9792">> >>

Payloads == {LinkedA, PathA, RowCap, RowPlain, TripA}

\* The fields _is_valuable_fact searches for in str(item).lower()
valuable_fields == {"description", "type", "capacity", "compatibility", "license"}

\* Which of the strings of the payload universe contain which searched word
\* (Python's "word in text" on the lowercased text of a key or a value; the
\* text of a graph node lists its properties, its sku among them).
WordsIn(text) ==
    CASE text = "match_type" -> {"type"}
      [] text = "path_type: panel_capacity_analysis" -> {"type", "capacity"}
      [] text = "p.capacity" -> {"capacity"}
      [] text = "p.sku" -> {"sku"}
      [] text \in {"node 4098-9714", "node 4098-9792"} -> {"sku"}
      [] OTHER -> {}

\* word in str(item).lower()
InStr(word, item) ==
    \E i \in 1..Len(item) : word \in WordsIn(item[i][1]) \cup WordsIn(item[i][2])

Keys(item) == {item[i][1] : i \in 1..Len(item)}

_is_valuable_fact(item) ==
    \/ "sku" \in Keys(item) \/ "name" \in Keys(item)
    \/ ("source" \in Keys(item) /\ "target" \in Keys(item))
    \/ \E field \in valuable_fields : InStr(field, item)

RECURSIVE _filter_valuable_data(_, _)
\* the items whose signature is not in the seen set and that are valuable,
\* in order
_filter_valuable_data(data, seen_facts) ==
    IF data = <<>> THEN <<>>
    ELSE LET rest == _filter_valuable_data(Tail(data), seen_facts)
         IN  IF Signature(data[1]) \notin seen_facts /\ _is_valuable_fact(data[1])
             THEN <<data[1]>> \o rest
             ELSE rest

\* Confidence in hundredths.  No payload of the universe carries a
\* description longer than 50 characters, so only the sku boost can apply.
base_confidence(method) ==
    CASE method = "entity_linking" -> 90
      [] method = "cypher_retrieval" -> 80
      [] method = "triplet_retrieval" -> 70
      [] method = "path_retrieval" -> 60
      [] OTHER -> 50

Min(a, b) == IF a < b THEN a ELSE b

_calculate_confidence(method, data) ==
    LET has_skus == \E i \in 1..Len(data) : InStr("sku", data[i])
    IN  Min(base_confidence(method) + (IF has_skus THEN 10 ELSE 0), 100)

-----------------------------------------------------------------------------
(* Texts of the completion service.  A text is its prose, and the JSON it  *)
(* carries: none, invalid JSON, a JSON list or a JSON object, inside a     *)
(* ```json fence or bare.                                                  *)

EmptyDict == [k \in {} |-> 0]

NoJson == [kind |-> "none", value |-> EmptyDict]
BadJson == [kind |-> "invalid", value |-> EmptyDict]
ListJson(name) == [kind |-> "list", value |-> [items |-> name]]
DictJson(d) == [kind |-> "dict", value |-> d]

Text(narr, fenced, json) == [narr |-> narr, fenced |-> fenced, json |-> json]

\* dict.get(key, default)
Get(d, key, default) == IF key \in DOMAIN d THEN d[key] ELSE default

\* What the completion call of _get_baseline_answer can come back with
\* (Failed: the call raised)
Failed == [ok |-> FALSE, text |-> Text("", FALSE, NoJson)]
Reply(text) == [ok |-> TRUE, text |-> text]

BaselineReplies ==
    {Failed, Reply(Text("baseline narrative", TRUE, ListJson("baseline items")))}

SynthReplies ==
    {Failed,
     Reply(Text("grounded narrative", TRUE, ListJson("grounded items"))),
     Reply(Text("grounded narrative", TRUE, BadJson)),
     Reply(Text("grounded narrative", FALSE, NoJson))}

VerdictDicts ==
    {EmptyDict,
     [answer_a_score |-> 4, answer_b_score |-> 8, better_answer |-> "B",
      kg_better |-> TRUE],
     [answer_a_score |-> 8, answer_b_score |-> 4, better_answer |-> "A",
      kg_better |-> FALSE],
     [better_answer |-> "B"]}

CompareReplies ==
    {Failed}
    \cup {Reply(Text("verdict", TRUE, DictJson(d))) : d \in VerdictDicts}
    \cup {Reply(Text("verdict", TRUE, j)) : j \in {BadJson, ListJson("scores")}}
    \cup {Reply(Text("verdict", FALSE, NoJson))}

\* _get_baseline_answer: the reply's content, or the fixed text on failure
_get_baseline_answer(reply) ==
    IF reply.ok THEN reply.text
    ELSE Text("Unable to generate baseline answer.", FALSE, NoJson)

\* _extract_boq: the JSON of the fenced block, else of a bare [...] region;
\* [] when there is none or json.loads raises
_extract_boq(text) ==
    IF text.json.kind = "list" THEN <<text.json.value.items>> ELSE <<>>

\* _generate_kg_enhanced_answer: answer is the text before the fence
_generate_kg_enhanced_answer(reply) ==
    IF reply.ok
    THEN [answer |-> IF reply.text.fenced
                     THEN Text(reply.text.narr, FALSE, NoJson)
                     ELSE reply.text,
          boq |-> _extract_boq(reply.text)]
    ELSE [answer |-> Text("Unable to generate a complete answer due to an error.",
                          FALSE, NoJson),
          boq |-> <<>>]

\* _extract_json_from_response: json.loads of the fenced block, else of a
\* {...} region; {} when there is none or json.loads raises.  A fenced JSON
\* list is returned as parsed (a list); a bare list has no {...} region.
_extract_json_from_response(text) ==
    CASE text.json.kind = "dict" -> text.json
      [] text.json.kind = "list" /\ text.fenced -> text.json
      [] OTHER -> DictJson(EmptyDict)

\* _compare_answers: the verdict read from the evaluator's reply.  The
\* except branch is taken when the call raises and when result.get fails
\* because the parsed JSON is not an object.
_compare_answers(reply) ==
    LET parsed == _extract_json_from_response(reply.text)
        res == parsed.value
    IN  IF reply.ok /\ parsed.kind = "dict"
        THEN [baseline_score |-> Get(res, "answer_a_score", 5),
              kg_score |-> Get(res, "answer_b_score", 5),
              kg_better |-> Get(res, "kg_better",
                                Get(res, "better_answer", "None") = "B")]
        ELSE [baseline_score |-> 6, kg_score |-> 7, kg_better |-> TRUE]

_generate_best_answer_BoqOfWinner(baseline, kg, comparison) ==
    IF comparison.kg_better
    THEN [answer |-> kg.answer, boq |-> kg.boq,
          method_used |-> "knowledge_graph_enhanced",
          baseline_score |-> comparison.baseline_score,
          kg_score |-> comparison.kg_score]
    ELSE [answer |-> baseline, boq |-> _extract_boq(baseline),
          method_used |-> "hybrid_baseline_with_kg_boq",
          baseline_score |-> comparison.baseline_score,
          kg_score |-> comparison.kg_score]

\* _generate_best_answer, after the synthesis call
_generate_best_answer(baseline, kg, comparison) ==
    IF comparison.kg_better
    THEN [answer |-> kg.answer, boq |-> kg.boq,
          method_used |-> "knowledge_graph_enhanced",
          baseline_score |-> comparison.baseline_score,
          kg_score |-> comparison.kg_score]
    ELSE [answer |-> baseline, boq |-> kg.boq,
          method_used |-> "hybrid_baseline_with_kg_boq",
          baseline_score |-> comparison.baseline_score,
          kg_score |-> comparison.kg_score]

-----------------------------------------------------------------------------
(* GraphRetriever.retrieve_all.  The graph store's answers are inputs:     *)
(* each is a list of payloads, or StoreError when session.run raises.      *)

\* An answer of the graph store: rows, or an error raised by session.run
StoreError == [ok |-> FALSE, rows |-> <<>>]
Rows(rows) == [ok |-> TRUE, rows |-> rows]

\* What the analyzer hands to the retriever.  entities is a dataclass
\* instance, hence always true in "if kg_linker_output.entities"; mentions
\* says whether some entity carries both "type" and "identifier";
\* cypher_queries always holds the complete_system_compatibility query.
KGOutputs == [mentions : BOOLEAN, paths : BOOLEAN]

Bundle(method, data) == [method |-> method, data |-> data]

\* link_entities: session.run of _exact_match / _fuzzy_match is not guarded
LinkAnswers(kg) ==
    IF kg.mentions THEN {StoreError, Rows(<<>>), Rows(<<LinkedA>>)} ELSE {Rows(<<>>)}
\* _retrieve_paths: a failed path query is caught and skipped
PathAnswers(kg) == IF kg.paths THEN {Rows(<<>>), Rows(<<PathA>>)} ELSE {Rows(<<>>)}
\* _execute_cypher_queries: a failed query is caught and gives no rows
CypherAnswers == {Rows(<<>>), Rows(<<RowCap>>), Rows(<<RowPlain>>)}
\* _retrieve_triplets: runs only for a non-empty linked list; session.run
\* is not guarded
TripletAnswers(linked) ==
    IF linked.ok /\ linked.rows # <<>>
    THEN {StoreError, Rows(<<>>), Rows(<<TripA>>)}
    ELSE {Rows(<<>>)}

OneBundle(method, data) == IF data # <<>> THEN <<Bundle(method, data)>> ELSE <<>>

\* The forms of kg_linker_output.entities: the analyzer's dataclass object
\* (true in a condition even with all its lists empty) or a plain list
EntityForms == {"dataclass", "list", "empty list"}

\* The list retrieve_all returns (raised: an exception leaves it instead).
\* With a false entities value step 1 never assigns linked_entities, and
\* the read of it at line 79 is an UnboundLocalError.
retrieve_all(entities, linked, path_results, cypher_results, triplet_results) ==
    IF entities = "empty list" \/ ~linked.ok \/ ~triplet_results.ok
    THEN [raised |-> TRUE, results |-> <<>>]
    ELSE [raised |-> FALSE,
          results |-> OneBundle("entity_linking", linked.rows)
                      \o OneBundle("path_retrieval", path_results.rows)
                      \o OneBundle("cypher_retrieval", cypher_results.rows)
                      \o OneBundle("triplet_retrieval", triplet_results.rows)]

-----------------------------------------------------------------------------
(* GraphRetriever._execute_cypher.  A query text is a sequence of          *)
(* characters.                                                             *)

LowerCase == <<"a","b","c","d","e","f","g","h","i","j","k","l","m",
               "n","o","p","q","r","s","t","u","v","w","x","y","z">>
UpperCase == <<"A","B","C","D","E","F","G","H","I","J","K","L","M",
               "N","O","P","Q","R","S","T","U","V","W","X","Y","Z">>

UpperChar(c) ==
    IF \E i \in 1..26 : LowerCase[i] = c
    THEN UpperCase[CHOOSE i \in 1..26 : LowerCase[i] = c]
    ELSE c

LowerChar(c) ==
    IF \E i \in 1..26 : UpperCase[i] = c
    THEN LowerCase[CHOOSE i \in 1..26 : UpperCase[i] = c]
    ELSE c

UpperNothing(text) == text

\* str.upper()
Upper(text) == [i \in 1..Len(text) |-> UpperChar(text[i])]

\* "sub in text"
Contains(sub, text) ==
    \E i \in 0..(Len(text) - Len(sub)) : SubSeq(text, i + 1, i + Len(sub)) = sub

forbidden_keywords ==
    << <<"D","E","L","E","T","E">>, <<"R","E","M","O","V","E">>, <<"S","E","T">>,
       <<"C","R","E","A","T","E">>, <<"M","E","R","G","E">>,
       <<"D","E","T","A","C","H">> >>

LimitWord == <<"L","I","M","I","T">>
LimitClause == <<" ","L","I","M","I","T"," ","1","0","0">>

NoRequest == <<>>

\* Is the query refused by the keyword check (lines 159-165)
Refused(cypher_text) ==
    LET query_upper == Upper(cypher_text)
    IN  \E k \in 1..Len(forbidden_keywords) :
            Contains(forbidden_keywords[k], query_upper)

\* The text handed to session.run (lines 169-173)
RequestText(cypher_text) ==
    IF ~Contains(LimitWord, Upper(cypher_text))
    THEN cypher_text \o LimitClause
    ELSE cypher_text

\* _execute_cypher: the rows returned and the request sent, for the answer
\* the store would give; an exception of session.run is caught and logged
_execute_cypher(cypher_text, answer) ==
    IF Refused(cypher_text)
    THEN [results |-> <<>>, sent |-> NoRequest]
    ELSE [results |-> IF answer.ok THEN answer.rows ELSE <<>>,
          sent |-> RequestText(cypher_text)]

\* The graph store: Cypher keywords are case-insensitive, and a statement
\* changes the graph when it carries one of the updating clauses
\* CREATE, MERGE, DELETE, SET, REMOVE (DETACH only precedes DELETE).
UpdatingClauses ==
    { <<"C","R","E","A","T","E">>, <<"M","E","R","G","E">>,
      <<"D","E","L","E","T","E">>, <<"S","E","T">>, <<"R","E","M","O","V","E">> }

StoreWrites(request) ==
    LET folded == [i \in 1..Len(request) |-> UpperChar(request[i])]
    IN  \E clause \in UpdatingClauses : Contains(clause, folded)

\* Query texts the analyzer can produce
MatchN ==
    <<"M","A","T","C","H"," ","(","n",")"," ">>
ReturnN ==
    <<"R","E","T","U","R","N"," ","n">>
WithLimit ==
    <<" ","L","I","M","I","T"," ","5">>
WithLowerLimit ==
    <<" ","l","i","m","i","t"," ","5">>

Lower(text) == [i \in 1..Len(text) |-> LowerChar(text[i])]
\* First letter in upper case, the rest in lower case
Title(text) == [i \in 1..Len(text) |-> IF i = 1 THEN UpperChar(text[i])
                                       ELSE LowerChar(text[i])]
\* Letters alternately in lower and upper case
Alternate(text) == [i \in 1..Len(text) |-> IF i % 2 = 1 THEN LowerChar(text[i])
                                           ELSE UpperChar(text[i])]

KeywordSpellings ==
    UNION { {forbidden_keywords[k], Lower(forbidden_keywords[k]),
             Title(forbidden_keywords[k]), Alternate(forbidden_keywords[k])} :
            k \in 1..Len(forbidden_keywords) }

ReadQueries ==
    {MatchN \o ReturnN, MatchN \o ReturnN \o WithLimit,
     MatchN \o ReturnN \o WithLowerLimit}

\* A keyword in the middle and at the end of a text
KeywordQueries ==
    UNION { {MatchN \o w \o <<" ">> \o ReturnN,
             MatchN \o ReturnN \o <<" ">> \o w} : w \in KeywordSpellings }

CypherTexts == ReadQueries \cup KeywordQueries

StoreAnswers == {StoreError, Rows(<<>>), Rows(<<RowCap>>), Rows(<<RowPlain>>)}

CypherIdle ==
    /\ called_query = <<>>
    /\ called_results = <<>>
    /\ store_request = NoRequest
    /\ store_requests = 0
    /\ graph_mutated = FALSE

-----------------------------------------------------------------------------
(* LLMCache and CachedOpenAIClient (llm_cache.py)                          *)
(* Time is counted in ticks of the clock read by time.time(); a cache      *)
(* file is a record of what json.load and stat() would give for it.        *)

MaxTime == 3
MaxTtl == 2
MaxBudget == 2
MaxCalls == 3

Whitespace == {" ", "\n", "\t"}

RECURSIVE strip(_)
\* str.strip(): leading and trailing whitespace removed
strip(text) ==
    IF text = <<>> THEN text
    ELSE IF Head(text) \in Whitespace THEN strip(Tail(text))
    ELSE IF text[Len(text)] \in Whitespace
         THEN strip(SubSeq(text, 1, Len(text) - 1))
    ELSE text

RECURSIVE _messages_to_prompt(_)
\* "role: content" of every message, joined by newlines
_messages_to_prompt(messages) ==
    IF messages = <<>> THEN <<>>
    ELSE LET msg == messages[Len(messages)]
             part == Get(msg, "role", <<"u","s","e","r">>) \o <<":", " ">>
                         \o Get(msg, "content", <<>>)
         IN  IF Len(messages) = 1 THEN part
             ELSE _messages_to_prompt(SubSeq(messages, 1, Len(messages) - 1))
                      \o <<"\n">> \o part

\* The key: sha256 of the JSON text of these five values (taken as
\* collision-free); temperature and top_p are in tenths
_generate_cache_key(prompt, model, params) ==
    [prompt |-> strip(prompt),
     model |-> model,
     temperature |-> Get(params, "temperature", 0),
     max_tokens |-> Get(params, "max_tokens", 1000),
     top_p |-> Get(params, "top_p", 10)]

\* Texts the completion service can answer with, and the size of the cache
\* file that holds each
Responses == {"r1", "r2"}
FileSize(response) == IF response = "r1" THEN 1 ELSE 2

\* The file written by save_response at time t
CachedResponse(response, t) ==
    [response |-> response, timestamp |-> t, st_mtime |-> t,
     st_size |-> FileSize(response), damage |-> "none"]

NoFile == [damage |-> "absent"]
FileAt(fs, cache_key) == IF cache_key \in DOMAIN fs THEN fs[cache_key] ELSE NoFile
Remove(fs, cache_key) == [k \in DOMAIN fs \ {cache_key} |-> fs[k]]

\* Kinds of damage to a file: "unparsable" makes json.load raise, "schema"
\* leaves JSON with a timestamp that CachedResponse(**cached_data) rejects
Damages == {"unparsable", "schema"}

ZeroStats == [hits |-> 0, misses |-> 0, saves |-> 0, evictions |-> 0]

ValidReversed(entry) == now - entry.timestamp > ttl_seconds

\* Line 71: is the entry still valid
Valid(entry) == now - entry.timestamp < ttl_seconds

\* get_response: what it returns ("None" for no entry), the files and the
\* statistics it leaves
get_response(prompt, model, kwargs) ==
    LET cache_key == _generate_cache_key(prompt, model, kwargs)
    IN  IF cache_key \notin DOMAIN files
        THEN [result |-> "None", files |-> files,
              stats |-> [stats EXCEPT !.misses = @ + 1]]
        ELSE IF files[cache_key].damage # "none"
        THEN [result |-> "None", files |-> files, stats |-> stats]
        ELSE IF Valid(files[cache_key])
        THEN [result |-> files[cache_key].response, files |-> files,
              stats |-> [stats EXCEPT !.hits = @ + 1]]
        ELSE [result |-> "None", files |-> Remove(files, cache_key),
              stats |-> [stats EXCEPT !.misses = @ + 1]]

RECURSIVE TotalSize(_)
\* sum(f.stat().st_size for f in glob("*.json"))
TotalSize(fs) ==
    IF DOMAIN fs = {} THEN 0
    ELSE LET k == CHOOSE k \in DOMAIN fs : TRUE
         IN  fs[k].st_size + TotalSize(Remove(fs, k))

Newest(fs) ==
    {k \in DOMAIN fs : \A other \in DOMAIN fs : fs[k].st_mtime >= fs[other].st_mtime}

\* The files that can come first in the list sorted by st_mtime
Oldest(fs) ==
    {k \in DOMAIN fs : \A other \in DOMAIN fs : fs[k].st_mtime <= fs[other].st_mtime}

RECURSIVE _manage_cache_size(_, _)
\* The outcomes of _manage_cache_size: files with equal st_mtime are met in
\* the order glob() lists them
_manage_cache_size(fs, st) ==
    IF TotalSize(fs) <= max_cache_size_bytes
    THEN {[files |-> fs, stats |-> st]}
    ELSE UNION { _manage_cache_size(Remove(fs, k), [st EXCEPT !.evictions = @ + 1]) :
                 k \in Oldest(fs) }

\* The outcomes of save_response on files fs with statistics st
save_response(prompt, model, response, kwargs, fs, st) ==
    LET cache_key == _generate_cache_key(prompt, model, kwargs)
        written == [k \in DOMAIN fs \cup {cache_key} |->
                       IF k = cache_key THEN CachedResponse(response, now)
                       ELSE fs[k]]
    IN  _manage_cache_size(written, [st EXCEPT !.saves = @ + 1])

\* _cleanup_expired: the files left by the sweep
_cleanup_expired(fs) ==
    LET kept == {k \in DOMAIN fs :
                    /\ fs[k].damage # "unparsable"
                    /\ ~(now - fs[k].timestamp > ttl_seconds)}
    IN  [k \in kept |-> fs[k]]

\* Requests made of chat_completions_create
User == <<"u","s","e","r">>
Contents == {<<"q">>, <<"r", " ">>}
Requests ==
    {[messages |-> <<[role |-> User, content |-> c]>>, model |-> "gpt-4o"] :
     c \in Contents}
\* Arguments of direct get_response and save_response calls
DirectCalls ==
    {[prompt |-> _messages_to_prompt(r.messages), model |-> r.model,
      kwargs |-> [temperature |-> 1, max_tokens |-> 1000]] : r \in Requests}

NoCall == [op |-> "none"]
NeverStored == [op |-> "none"]

NotCalled == [status |-> "not called"]
\* No function is studied on its own
FnIdle == given = NotCalled /\ returned = NotCalled

\* No cache has been constructed
CacheIdle ==
    /\ files = <<>>
    /\ now = 0
    /\ stats = ZeroStats
    /\ ttl_seconds = 0
    /\ max_cache_size_bytes = 0
    /\ last_call = NoCall
    /\ stored = [r \in Requests |-> NeverStored]
    /\ calls = 0

-----------------------------------------------------------------------------
(* BYOKGRAGPipeline.process_query                                          *)

NoResult == [status |-> "none"]
NoAnswer == [answer |-> Text("", FALSE, NoJson), boq |-> <<>>]

RECURSIVE FilterRound(_, _, _)
\* Step 3 of a round: walks retrieval_results in order and returns the new
\* context entries and the seen set as they are after the walk
FilterRound(results, seen_facts, round) ==
    IF results = <<>> THEN [new_context |-> <<>>, seen |-> seen_facts]
    ELSE LET valuable_data == _filter_valuable_data(results[1].data, seen_facts)
             seen1 == seen_facts
                        \cup {FactString(valuable_data[i]) : i \in 1..Len(valuable_data)}
             rest == FilterRound(Tail(results), seen1, round)
         IN  IF valuable_data # <<>>
             THEN [new_context |->
                       <<[iteration |-> round,
                          method |-> results[1].method,
                          data |-> valuable_data,
                          confidence |-> _calculate_confidence(results[1].method,
                                                               valuable_data)]>>
                       \o rest.new_context,
                   seen |-> rest.seen]
             ELSE rest

EarlyStopAnyRound(new_context, iter) == new_context = <<>>

\* "if not new_context and iteration > 0: break"
EarlyStop(new_context, iter) == new_context = <<>> /\ iter > 0

LoopContinuesOffByOne(iter, max) == iter + 1 <= max

\* "for iteration in range(self.max_iterations)": after the round with loop
\* variable iter, is there a next value
LoopContinues(iter, max) == iter + 1 < max

extendReplaces(context, new_context) == new_context

\* line 101: accumulated_context.extend(new_context)
extend(context, new_context) == context \o new_context

Init ==
    /\ pc = "start"
    /\ max_iterations \in 0..MaxIter
    /\ iteration = 0
    /\ accumulated_context = <<>>
    /\ iteration_metadata = <<>>
    /\ all_retrieved_facts = {}
    /\ baseline_answer = Text("", FALSE, NoJson)
    /\ kg_output = [mentions |-> FALSE, paths |-> FALSE]
    /\ retrieval_results = <<>>
    /\ kg_answer = NoAnswer
    /\ compare_reply = Failed
    /\ result = NoResult
    /\ completion_calls = <<>>
    /\ CypherIdle
    /\ CacheIdle
    /\ FnIdle

(* EnhancedKGLinker: rule extraction, the parsed reply and their merge *)

MaxMatches == 2

Quantities == {0, 1, 159, 160, 318, 319, 636, 637}

DeviceTypes == {"smoke detector", "speaker"}

\* re.findall(device_pattern, ...): (quantity, device_type) in query order
DeviceMatches ==
    UNION {[1..n -> [quantity : Quantities, device_type : DeviceTypes]] :
              n \in 0..MaxMatches}

\* capacities.get(panel_sku, 636)
_get_panel_capacity(panel_sku) ==
    CASE panel_sku = "4007ES" -> 159
      [] panel_sku = "4010ES" -> 318
      [] panel_sku = "4100ES" -> 636
      [] OTHER -> 636

RECURSIVE total_addressable_points(_)
total_addressable_points(device_matches) ==
    IF device_matches = <<>> THEN 0
    ELSE device_matches[1].quantity + total_addressable_points(Tail(device_matches))

recommended_panel(total) ==
    IF total <= 159 THEN "4007ES"
    ELSE IF total <= 318 THEN "4010ES"
    ELSE "4100ES"

_apply_rule_based_extraction(device_matches) ==
    LET total == total_addressable_points(device_matches)
        \* 'smoke' in device_type or 'heat' in device_type
        IsDetector(device_type) == device_type = "smoke detector"
        \* device_type.replace(' ', '_')
        EntityType(device_type) ==
            IF device_type = "smoke detector" THEN "smoke_detector" ELSE device_type
        detectors == SelectSeq(device_matches, LAMBDA m : IsDetector(m.device_type))
    IN  [entities |->
            [i \in 1..Len(device_matches) |->
                [type |-> EntityType(device_matches[i].device_type),
                 quantity |-> device_matches[i].quantity,
                 extraction_method |-> "rule_based"]],
         detector_base_requirements |->
            [i \in 1..Len(detectors) |->
                [detector_type |-> detectors[i].device_type,
                 base_quantity |-> detectors[i].quantity]],
         panel_recommendations |->
            IF total > 0
            THEN <<[recommended_panel |-> recommended_panel(total),
                    total_points_needed |-> total,
                    capacity |-> _get_panel_capacity(recommended_panel(total))]>>
            ELSE <<>>]

\* A Python value found under a key of the parsed reply: a list of items,
\* a string or null; an item is a dict or a string.
PyItem(type, suggested_sku, required_for, capacity_needed, quantity, source) ==
    [type |-> type, suggested_sku |-> suggested_sku, required_for |-> required_for,
     capacity_needed |-> capacity_needed, quantity |-> quantity, source |-> source]

PyList(items) == [type |-> "list", items |-> items]

\* What the completion call of _extract_entities_with_llm comes to: it
\* raises, its text holds no JSON, broken JSON, a fenced JSON list, or an
\* object whose "panels" and "bases" hold the values below
AnalyzerReplies ==
    LET PanelValues ==
            {PyList(<<>>),
             PyList(<<PyItem("dict", "4007ES", "absent", 0, 0, "llm")>>),
             PyList(<<PyItem("str", "absent", "absent", 0, 0, "llm")>>),
             [type |-> "str", items |-> <<>>],
             [type |-> "None", items |-> <<>>]}
        BaseValues ==
            {PyList(<<>>),
             PyList(<<PyItem("dict", "absent", "smoke detector", 0, 0, "llm")>>)}
    IN  {[kind |-> k, panels |-> PyList(<<>>), bases |-> PyList(<<>>)] :
            k \in {"raises", "no json", "invalid json", "fenced list"}}
        \cup [kind : {"object"}, panels : PanelValues, bases : BaseValues]

NoEntities ==
    [panels |-> PyList(<<>>), devices |-> PyList(<<>>), bases |-> PyList(<<>>)]

\* _parse_json_response and the reads of the parsed reply; every exception
\* is caught by the method's own except clause
_extract_entities_with_llm(reply) ==
    IF reply.kind = "object"
    THEN [panels |-> reply.panels, devices |-> PyList(<<>>), bases |-> reply.bases]
    ELSE NoEntities

\* any(p.get('suggested_sku') == sku for p in panels): "raised" when a
\* string item is reached before a match
RECURSIVE AnyPanel(_, _)
AnyPanel(panels, sku) ==
    IF panels = <<>> THEN "False"
    ELSE IF panels[1].type # "dict" THEN "raised"
    ELSE IF panels[1].suggested_sku = sku THEN "True"
    ELSE AnyPanel(Tail(panels), sku)

RECURSIVE EnsureBases(_, _)
EnsureBases(bases, requirements) ==
    IF requirements = <<>> THEN bases
    ELSE LET base_req == requirements[1]
             bases_for_detector ==
                SelectSeq(bases, LAMBDA b : b.required_for = base_req.detector_type)
         IN  EnsureBases(
                IF bases_for_detector = <<>>
                THEN Append(bases,
                        PyItem("dict", "absent", base_req.detector_type, 0,
                               base_req.base_quantity, "rule_based_enhancement"))
                ELSE bases,
                Tail(requirements))

_combine_extractions(rule_based, llm_results) ==
    IF llm_results.panels.type # "list"
    THEN [raised |-> TRUE, entities |-> NoEntities]
    ELSE LET recs == rule_based.panel_recommendations
             panel_found ==
                IF recs = <<>> THEN "True"
                ELSE AnyPanel(llm_results.panels.items, recs[1].recommended_panel)
         IN  IF panel_found = "raised"
             THEN [raised |-> TRUE, entities |-> NoEntities]
             ELSE [raised |-> FALSE,
                   entities |->
                     [panels |-> PyList(
                         IF panel_found = "False"
                         THEN Append(llm_results.panels.items,
                                 PyItem("dict", recs[1].recommended_panel, "absent",
                                        recs[1].total_points_needed, 0,
                                        "rule_based_enhancement"))
                         ELSE llm_results.panels.items),
                      devices |-> llm_results.devices,
                      bases |-> PyList(EnsureBases(llm_results.bases.items,
                                    rule_based.detector_base_requirements))]]

\* lines 137-182; _identify_relationship_paths reads panel.get of every panel
EnhancedKGLinker_process_query(device_matches, reply) ==
    LET rule_based_results == _apply_rule_based_extraction(device_matches)
        llm_entities == _extract_entities_with_llm(reply)
        combined == _combine_extractions(rule_based_results, llm_entities)
    IN  IF \/ combined.raised
           \/ \E i \in 1..Len(combined.entities.panels.items) :
                 combined.entities.panels.items[i].type # "dict"
        THEN [raised |-> TRUE, entities |-> NoEntities,
              rule_based_extractions |-> rule_based_results]
        ELSE [raised |-> FALSE, entities |-> combined.entities,
              rule_based_extractions |-> rule_based_results]

\* Is there a query and a reply with which the analyzer raises
AnalyzerMayRaise ==
    \E device_matches \in DeviceMatches, reply \in AnalyzerReplies :
       EnhancedKGLinker_process_query(device_matches, reply).raised

\* lines 64-70: the baseline call, then the loop is entered or skipped
GetBaseline ==
    /\ pc = "start"
    /\ \E reply \in BaselineReplies : baseline_answer' = _get_baseline_answer(reply)
    /\ pc' = IF 0 < max_iterations THEN "analyze" ELSE "synthesize"
    /\ UNCHANGED <<max_iterations, iteration, accumulated_context,
                   iteration_metadata, all_retrieved_facts, kg_output,
                   retrieval_results, kg_answer, compare_reply, result>>
    /\ completion_calls' = Append(completion_calls, "baseline")
    /\ UNCHANGED <<cypherVars, cacheVars, fnVars>>

\* lines 76-80: the analyzer; its completion failure is caught inside, a
\* reply of another structure than expected makes it raise
Analyze ==
    /\ pc = "analyze"
    /\ \/ /\ kg_output' \in KGOutputs
          /\ pc' = "retrieve"
       \/ /\ AnalyzerMayRaise
          /\ kg_output' = kg_output
          /\ pc' = "raised"
    /\ UNCHANGED <<max_iterations, iteration, accumulated_context,
                   iteration_metadata, all_retrieved_facts, baseline_answer,
                   retrieval_results, kg_answer, compare_reply, result>>
    /\ completion_calls' = Append(completion_calls, "analyzer")
    /\ UNCHANGED <<cypherVars, cacheVars, fnVars>>

\* line 83: retrieve_all; an exception of it leaves process_query
Retrieve ==
    /\ pc = "retrieve"
    /\ \E linked \in LinkAnswers(kg_output), path_results \in PathAnswers(kg_output),
          cypher_results \in CypherAnswers :
         \E triplet_results \in TripletAnswers(linked) :
            LET got == retrieve_all("dataclass", linked, path_results,
                                    cypher_results, triplet_results)
            IN  IF got.raised
                THEN /\ pc' = "raised"
                     /\ retrieval_results' = <<>>
                ELSE /\ pc' = "filter"
                     /\ retrieval_results' = got.results
    /\ UNCHANGED <<max_iterations, iteration, accumulated_context,
                   iteration_metadata, all_retrieved_facts, baseline_answer,
                   kg_output, kg_answer, compare_reply, result>>
    /\ UNCHANGED completion_calls
    /\ UNCHANGED <<cypherVars, cacheVars, fnVars>>

\* lines 85-116: filter, accumulate, record the round, decide to go on.
\* Of the round's record the counts of new facts and of context items are
\* kept; the analyzer and retriever counts are not read by anything.
FilterAccumulate ==
    /\ pc = "filter"
    /\ LET round == FilterRound(retrieval_results, all_retrieved_facts, iteration + 1)
           new_context == round.new_context
       IN  /\ accumulated_context' = extend(accumulated_context, new_context)
           /\ all_retrieved_facts' = round.seen
           /\ iteration_metadata' =
                 Append(iteration_metadata,
                        [iteration |-> iteration + 1,
                         new_facts_found |-> Len(new_context),
                         total_context_items |-> Len(accumulated_context')])
           /\ IF EarlyStop(new_context, iteration)
                 \/ ~LoopContinues(iteration, max_iterations)
              THEN pc' = "synthesize" /\ iteration' = iteration
              ELSE pc' = "analyze" /\ iteration' = iteration + 1
    \* the round's locals are dead from here on
    /\ retrieval_results' = <<>>
    /\ kg_output' = [mentions |-> FALSE, paths |-> FALSE]
    /\ UNCHANGED <<max_iterations, baseline_answer, kg_answer, compare_reply, result>>
    /\ UNCHANGED completion_calls
    /\ UNCHANGED <<cypherVars, cacheVars, fnVars>>

\* line 304: the synthesis call of _generate_best_answer
Synthesize ==
    /\ pc = "synthesize"
    /\ \E reply \in SynthReplies : kg_answer' = _generate_kg_enhanced_answer(reply)
    /\ pc' = "compare"
    /\ UNCHANGED <<max_iterations, iteration, accumulated_context,
                   iteration_metadata, all_retrieved_facts, baseline_answer,
                   kg_output, retrieval_results, compare_reply, result>>
    /\ completion_calls' = Append(completion_calls, "synthesis")
    /\ UNCHANGED <<cypherVars, cacheVars, fnVars>>

\* lines 307-329 and 121-132: the comparison call, the choice of the final
\* answer and the BYOKGRAGResult returned
Compare ==
    /\ pc = "compare"
    /\ \E reply \in CompareReplies :
         LET final == _generate_best_answer(baseline_answer, kg_answer,
                                            _compare_answers(reply))
         IN  /\ compare_reply' = reply
             /\ result' = [status |-> "returned",
                           answer |-> final.answer,
                           bill_of_quantities |-> final.boq,
                           iterations_performed |-> Len(iteration_metadata),
                           total_context_items |-> Len(accumulated_context),
                           unique_facts_discovered |-> Cardinality(all_retrieved_facts),
                           method_used |-> final.method_used,
                           baseline_score |-> final.baseline_score,
                           kg_score |-> final.kg_score]
    /\ pc' = "done"
    /\ UNCHANGED <<max_iterations, iteration, accumulated_context,
                   iteration_metadata, all_retrieved_facts, baseline_answer,
                   kg_output, retrieval_results, kg_answer>>
    /\ completion_calls' = Append(completion_calls, "comparison")
    /\ UNCHANGED <<cypherVars, cacheVars, fnVars>>

Next ==
    \/ GetBaseline
    \/ Analyze
    \/ Retrieve
    \/ FilterAccumulate
    \/ Synthesize
    \/ Compare

Spec == Init /\ [][Next]_vars

-----------------------------------------------------------------------------
(* Properties of process_query, checked under Spec                         *)

\* Rounds entered so far, read off the loop variable
RoundsRun ==
    IF max_iterations = 0 \/ pc = "start" THEN 0
    ELSE IF pc = "analyze" THEN iteration
    ELSE iteration + 1

AfterLoop == pc \in {"synthesize", "compare", "done"}

\* Context entries appended by round k
Contributed(k) ==
    Cardinality({i \in 1..Len(accumulated_context) :
                    accumulated_context[i].iteration = k})

\* C1: process_query runs at most max_iterations rounds, and the returned
\* iterations_performed is the number of rounds run, never more than
\* max_iterations.
C1_RoundsBounded ==
    /\ RoundsRun <= max_iterations
    /\ Len(iteration_metadata) <= max_iterations
    /\ result.status = "returned" =>
          /\ result.iterations_performed = RoundsRun
          /\ result.iterations_performed <= max_iterations

C1_Witness ==
    /\ result.status = "returned"
    /\ max_iterations >= 2
    /\ result.iterations_performed = max_iterations

\* The condition under which the loop is left after round k
StopsAfter(k) == k = max_iterations \/ (k >= 2 /\ Contributed(k) = 0)

Items(data) == {data[i] : i \in 1..Len(data)}

\* C3: an evidence payload the retriever returns in two different rounds is
\* appended to the accumulated context in only one of them.
C3_NewExactlyOnce ==
    \A i, j \in 1..Len(accumulated_context) :
        accumulated_context[i].iteration # accumulated_context[j].iteration
            => Items(accumulated_context[i].data)
                  \cap Items(accumulated_context[j].data) = {}

\* C4: every call reaches DONE and returns a result with an answer; no
\* completion-service or graph-store failure leaves process_query as an
\* exception.
C4_AlwaysReturnsAnswer ==
    /\ pc # "raised"
    /\ pc = "done" => result.status = "returned"

Unparseable(reply) == reply.ok /\ reply.text.json.kind \in {"none", "invalid"}

\* C5: when the evaluator's reply cannot be parsed into a verdict, the
\* graph-grounded answer is the winner, with a neutral score, and its
\* narrative is the one returned.
C5_UnparsedPrefersGrounded ==
    (pc = "done" /\ Unparseable(compare_reply)) =>
        /\ result.method_used = "knowledge_graph_enhanced"
        /\ result.answer = kg_answer.answer
        /\ result.baseline_score = result.kg_score

\* C6: the itemized list returned is the one of the graph-grounded synthesis
\* for either verdict; the narrative is the grounded one when the grounded
\* answer wins and the baseline one otherwise; no list comes from the
\* baseline answer.
C6_BoqFromGrounded ==
    result.status = "returned" =>
        /\ result.bill_of_quantities = kg_answer.boq
        /\ result.bill_of_quantities # _extract_boq(baseline_answer)
              \/ result.bill_of_quantities = <<>>
        /\ result.answer = IF _compare_answers(compare_reply).kg_better
                           THEN kg_answer.answer
                           ELSE baseline_answer

C6_Witness ==
    /\ result.status = "returned"
    /\ ~_compare_answers(compare_reply).kg_better
    /\ _extract_boq(baseline_answer) # <<>>
    /\ result.bill_of_quantities = <<"grounded items">>
    /\ result.answer = baseline_answer

-----------------------------------------------------------------------------
(* The declarative query sandbox: calls of _execute_cypher on any text     *)

PipelineIdle ==
    /\ pc = "idle"
    /\ max_iterations = 0
    /\ iteration = 0
    /\ accumulated_context = <<>>
    /\ iteration_metadata = <<>>
    /\ all_retrieved_facts = {}
    /\ baseline_answer = Text("", FALSE, NoJson)
    /\ kg_output = [mentions |-> FALSE, paths |-> FALSE]
    /\ retrieval_results = <<>>
    /\ kg_answer = NoAnswer
    /\ compare_reply = Failed
    /\ result = NoResult
    /\ completion_calls = <<>>

InitCypher == PipelineIdle /\ CypherIdle /\ CacheIdle /\ FnIdle

\* One call of _execute_cypher (lines 152-188), and what the store does
\* with the request it receives
ExecuteCypher ==
    /\ store_requests < MaxRequests
    /\ \E cypher_text \in CypherTexts, answer \in StoreAnswers :
         \E call \in {_execute_cypher(cypher_text, answer)} :
             /\ called_query' = cypher_text
             /\ called_results' = call.results
             /\ store_request' = call.sent
             /\ store_requests' = store_requests + (IF call.sent # NoRequest THEN 1 ELSE 0)
             /\ graph_mutated' =
                   (graph_mutated \/ (call.sent # NoRequest /\ StoreWrites(call.sent)))
    /\ UNCHANGED <<pipeVars, cacheVars, fnVars>>

NextCypher == ExecuteCypher

SpecCypher == InitCypher /\ [][NextCypher]_vars

\* C7: a declarative query whose text contains create, merge, delete,
\* remove, set or detach in any letter case gets an empty result list and
\* no request reaches the graph store; no sequence of calls mutates the
\* graph.
C7_ForbiddenNeverRuns ==
    /\ (\E w \in KeywordSpellings : Contains(w, called_query)) =>
           /\ called_results = <<>>
           /\ store_request = NoRequest
    /\ ~graph_mutated

C7_Witness ==
    /\ Contains(<<"d","e","l","e","t","e">>, called_query)
    /\ called_results = <<>>
    /\ store_request = NoRequest

-----------------------------------------------------------------------------
(* The response cache on its own: one LLMCache over one directory, used    *)
(* through CachedOpenAIClient and directly, while time passes and files    *)
(* get damaged.                                                            *)

InitCache ==
    /\ PipelineIdle
    /\ CypherIdle
    /\ FnIdle
    /\ files = <<>>
    /\ now = 0
    /\ stats = ZeroStats
    /\ ttl_seconds = MaxTtl
    /\ max_cache_size_bytes = MaxBudget
    /\ last_call = NoCall
    /\ stored = [r \in Requests |-> NeverStored]
    /\ calls = 0

\* The cache key chat_completions_create looks up and stores under (lines
\* 250-265 and 279-286): top_p and every other keyword of the request stay
\* out of the arguments given to the cache
ChatKey(kwargs) ==
    _generate_cache_key(_messages_to_prompt(Get(kwargs, "messages", <<>>)),
                        Get(kwargs, "model", "gpt-4o"),
                        [temperature |-> Get(kwargs, "temperature", 1),
                         max_tokens |-> Get(kwargs, "max_tokens", 1000)])

\* CachedOpenAIClient.chat_completions_create(**kwargs); reply is what the
\* completion service does if it is called
ChatCompletionsCreate ==
    /\ calls < MaxCalls
    /\ calls' = calls + 1
    /\ \E kwargs \in Requests, reply \in Responses \cup {"raise"} :
         LET messages == Get(kwargs, "messages", <<>>)
             model == Get(kwargs, "model", "gpt-4o")
             params == [temperature |-> Get(kwargs, "temperature", 1),
                        max_tokens |-> Get(kwargs, "max_tokens", 1000)]
             prompt == _messages_to_prompt(messages)
             cache_key == ChatKey(kwargs)
             cached_response == get_response(prompt, model, params)
             call == [op |-> "chat", request |-> kwargs, key |-> cache_key,
                      before |-> FileAt(files, cache_key),
                      first |-> stored[kwargs],
                      miss_counted |-> cached_response.stats.misses # stats.misses]
         IN  IF cached_response.result # "None"
             THEN /\ files' = cached_response.files
                  /\ stats' = cached_response.stats
                  /\ last_call' = call @@ [result |-> cached_response.result,
                                            api |-> FALSE]
                  /\ UNCHANGED stored
             ELSE IF reply = "raise"
             THEN /\ files' = cached_response.files
                  /\ stats' = cached_response.stats
                  /\ last_call' = call @@ [result |-> "raised", api |-> TRUE]
                  /\ UNCHANGED stored
             ELSE \E saved \in save_response(prompt, model, reply, params,
                                             cached_response.files,
                                             cached_response.stats) :
                  /\ files' = saved.files
                  /\ stats' = saved.stats
                  /\ last_call' = call @@ [result |-> reply, api |-> TRUE,
                                            dir |-> files]
                  /\ stored' = [stored EXCEPT ![kwargs] =
                                   [op |-> "stored", response |-> reply, at |-> now]]
    /\ UNCHANGED <<now, ttl_seconds, max_cache_size_bytes>>
    /\ UNCHANGED <<pipeVars, cypherVars, fnVars>>

\* LLMCache.get_response called directly
GetResponse ==
    /\ calls < MaxCalls
    /\ calls' = calls + 1
    /\ \E c \in DirectCalls :
         LET cache_key == _generate_cache_key(c.prompt, c.model, c.kwargs)
             got == get_response(c.prompt, c.model, c.kwargs)
         IN  /\ files' = got.files
             /\ stats' = got.stats
             /\ last_call' = [op |-> "get", key |-> cache_key,
                              before |-> FileAt(files, cache_key),
                              result |-> got.result,
                              miss_counted |-> got.stats.misses # stats.misses]
    /\ UNCHANGED <<now, ttl_seconds, max_cache_size_bytes, stored>>
    /\ UNCHANGED <<pipeVars, cypherVars, fnVars>>

\* LLMCache.save_response called directly
SaveResponse ==
    /\ calls < MaxCalls
    /\ calls' = calls + 1
    /\ \E c \in DirectCalls, response \in Responses :
         \E saved \in save_response(c.prompt, c.model, response, c.kwargs,
                                    files, stats) :
             /\ files' = saved.files
             /\ stats' = saved.stats
             /\ last_call' = [op |-> "save",
                              key |-> _generate_cache_key(c.prompt, c.model, c.kwargs),
                              response |-> response, dir |-> files]
    /\ UNCHANGED <<now, ttl_seconds, max_cache_size_bytes, stored>>
    /\ UNCHANGED <<pipeVars, cypherVars, fnVars>>

\* Did the last operation run save_response to its end
Saved == last_call.op = "save" \/ (last_call.op = "chat" /\ "dir" \in DOMAIN last_call)

\* LLMCache.clear_cache
ClearCache ==
    /\ calls < MaxCalls
    /\ calls' = calls + 1
    /\ files' = <<>>
    /\ stats' = ZeroStats
    /\ last_call' = [op |-> "clear"]
    /\ UNCHANGED <<now, ttl_seconds, max_cache_size_bytes, stored>>
    /\ UNCHANGED <<pipeVars, cypherVars, fnVars>>

\* LLMCache.__init__ over the same directory with the same settings: a new
\* instance with fresh statistics, whose construction sweeps the directory
Construct ==
    /\ calls < MaxCalls
    /\ calls' = calls + 1
    /\ files' = _cleanup_expired(files)
    /\ stats' = ZeroStats
    /\ last_call' = [op |-> "init"]
    /\ UNCHANGED <<now, ttl_seconds, max_cache_size_bytes, stored>>
    /\ UNCHANGED <<pipeVars, cypherVars, fnVars>>

\* A cache file gets damaged on disk (counted with the bounded operations)
DamageFile ==
    /\ calls < MaxCalls
    /\ calls' = calls + 1
    /\ \E k \in DOMAIN files, damage \in Damages :
         /\ files[k].damage = "none"
         /\ files' = [files EXCEPT ![k].damage = damage]
    /\ last_call' = NoCall
    /\ UNCHANGED <<now, stats, ttl_seconds, max_cache_size_bytes, stored>>
    /\ UNCHANGED <<pipeVars, cypherVars, fnVars>>

\* Time passes
Tick ==
    /\ now < MaxTime
    /\ now' = now + 1
    /\ last_call' = NoCall
    /\ UNCHANGED <<files, stats, ttl_seconds, max_cache_size_bytes, stored, calls>>
    /\ UNCHANGED <<pipeVars, cypherVars, fnVars>>

NextCache ==
    \/ ChatCompletionsCreate
    \/ GetResponse
    \/ SaveResponse
    \/ ClearCache
    \/ Construct
    \/ DamageFile
    \/ Tick

SpecCache == InitCache /\ [][NextCache]_vars

\* C8: a chat_completions_create call repeating a request whose response an
\* earlier call stored less than the TTL ago returns that response and does
\* not call the completion service.
C8_SecondCallFromCache ==
    (/\ last_call.op = "chat"
     /\ last_call.first.op = "stored"
     /\ now - last_call.first.at < ttl_seconds)
    => /\ last_call.result = last_call.first.response
       /\ ~last_call.api

\* C8, amended: ... and the file the earlier call wrote is still in the
\* cache directory, unchanged, when the request is repeated.
C8_SecondCallFromKeptEntry ==
    (/\ last_call.op = "chat"
     /\ last_call.first.op = "stored"
     /\ now - last_call.first.at < ttl_seconds
     /\ last_call.before = CachedResponse(last_call.first.response, last_call.first.at))
    => /\ last_call.result = last_call.first.response
       /\ ~last_call.api

C8_Witness ==
    /\ last_call.op = "chat"
    /\ last_call.first.op = "stored"
    /\ now > last_call.first.at
    /\ now - last_call.first.at < ttl_seconds
    /\ last_call.before = CachedResponse(last_call.first.response, last_call.first.at)
    /\ last_call.result = last_call.first.response
    /\ ~last_call.api

\* C9: get_response on a key whose file holds a timestamp older than the TTL
\* returns None and the file is gone after the call.
C9_ExpiredReadRemoves ==
    (/\ last_call.op = "get"
     /\ last_call.before.damage \in {"none", "schema"}
     /\ now - last_call.before.timestamp > ttl_seconds)
    => /\ last_call.result = "None"
       /\ last_call.key \notin DOMAIN files

\* C10: get_response on a damaged file returns None, counts a miss and
\* deletes the file.
C10_DamagedReadIsMiss ==
    (/\ last_call.op = "get"
     /\ last_call.before.damage \in Damages)
    => /\ last_call.result = "None"
       /\ last_call.miss_counted
       /\ last_call.key \notin DOMAIN files

\* The files the last save_response removed, and the modification time each
\* had when it was removed
Evicted == (DOMAIN last_call.dir \cup {last_call.key}) \ DOMAIN files
EvictedMtime(k) == IF k = last_call.key THEN now ELSE last_call.dir[k].st_mtime

\* C11: when save_response has completed the files of the cache directory
\* total at most max_cache_size_bytes, and no file it removed was modified
\* later than a file it left.
C11_BudgetKeptOldestFirst ==
    Saved =>
        /\ TotalSize(files) <= max_cache_size_bytes
        /\ \A e \in Evicted : \A k \in DOMAIN files :
               EvictedMtime(e) <= files[k].st_mtime

C11_Witness ==
    /\ Saved
    /\ \E e \in Evicted : \E k \in DOMAIN files : EvictedMtime(e) < files[k].st_mtime
    /\ TotalSize(files) <= max_cache_size_bytes

\* C29: with a byte budget of at least the size of the entry and a TTL that
\* has not run out, the file save_response just wrote is in the directory
\* when save_response has completed, so that a get_response issued right
\* after it returns the response just saved; size management removes older
\* files, never this one.
C29_JustSavedIsReadable ==
    (/\ last_call.op = "save"
     /\ FileSize(last_call.response) <= max_cache_size_bytes
     /\ 0 < ttl_seconds)
    => /\ last_call.key \in DOMAIN files
       /\ files[last_call.key] = CachedResponse(last_call.response, now)
       /\ Valid(files[last_call.key])

-----------------------------------------------------------------------------
(* The cache key of pairs of chat_completions_create requests              *)

\* Requests that give model, temperature and max_tokens, and top_p or not
KeyRequests ==
    UNION {
      LET plain == [messages |-> <<[role |-> User, content |-> c]>>, model |-> m,
                    temperature |-> t, max_tokens |-> n]
      IN  {plain, plain @@ [top_p |-> 5], plain @@ [top_p |-> 10]} :
      c \in Contents \cup {<<"q", " ">>}, m \in {"gpt-4o", "gpt-4o-mini"},
      t \in {1, 7}, n \in {500, 1000} }

InitKey == PipelineIdle /\ CypherIdle /\ CacheIdle /\ FnIdle

\* Two requests and the keys chat_completions_create uses for them
KeyOfRequests ==
    /\ last_call = NoCall
    /\ \E a \in KeyRequests, b \in KeyRequests :
         last_call' = [op |-> "keys", a |-> a, b |-> b,
                       key_a |-> ChatKey(a), key_b |-> ChatKey(b)]
    /\ UNCHANGED <<files, now, stats, ttl_seconds, max_cache_size_bytes, stored, calls>>
    /\ UNCHANGED <<pipeVars, cypherVars, fnVars>>

SpecKey == InitKey /\ [][KeyOfRequests]_vars

\* Do two requests agree on prompt content, model, temperature, maximum
\* output length and top-p (1.0 when the request gives none)
Agree(a, b) ==
    /\ a.messages = b.messages
    /\ a.model = b.model
    /\ a.temperature = b.temperature
    /\ a.max_tokens = b.max_tokens
    /\ Get(a, "top_p", 10) = Get(b, "top_p", 10)

\* C12: two requests made through chat_completions_create have the same
\* cache key, and so share a cache entry, exactly when they agree on prompt
\* content, model, temperature, maximum output length and top-p.
C12_KeySeparatesRequests ==
    last_call.op = "keys" =>
        ((last_call.key_a = last_call.key_b) <=> Agree(last_call.a, last_call.b))

-----------------------------------------------------------------------------
(* process_query and the response cache                                    *)

\* C13: every completion call issued during process_query has been
\* preceded by an operation of the response cache (the lookup of its key).
C13_CompletionsThroughCache == Len(completion_calls) <= calls

\* Has process_query ended, by returning or by an exception
Ended == pc \in {"done", "raised"}
Count(kind) ==
    Cardinality({i \in 1..Len(completion_calls) : completion_calls[i] = kind})

\* C19: the completion calls are a baseline call, then analyzer calls, then
\* one synthesis call, then one comparison call; when the run has ended
\* each of baseline, synthesis and comparison was issued exactly once; and
\* the first round starts with no context and no seen facts.
C19_CallOrder ==
    /\ \A i \in 1..Len(completion_calls) :
          /\ (completion_calls[i] = "baseline") <=> (i = 1)
          /\ completion_calls[i] = "synthesis" =>
                /\ i = Len(iteration_metadata) + 2
                /\ \A j \in 2..(i - 1) : completion_calls[j] = "analyzer"
          /\ completion_calls[i] = "comparison" =>
                /\ i > 1
                /\ completion_calls[i - 1] = "synthesis"
                /\ i = Len(completion_calls)
    /\ Ended => /\ Count("baseline") = 1
                /\ Count("synthesis") = 1
                /\ Count("comparison") = 1
    /\ (pc = "analyze" /\ iteration = 0) =>
          (accumulated_context = <<>> /\ all_retrieved_facts = {})

\* C20: a step of process_query leaves accumulated_context a prefix of its
\* new value and all_retrieved_facts a subset of its new value.
C20_OnlyGrow ==
    [][/\ Len(accumulated_context) <= Len(accumulated_context')
       /\ SubSeq(accumulated_context', 1, Len(accumulated_context)) = accumulated_context
       /\ all_retrieved_facts \subseteq all_retrieved_facts']_vars

C20_Witness ==
    /\ Len(iteration_metadata) >= 2
    /\ iteration_metadata[1].total_context_items >= 1
    /\ iteration_metadata[2].new_facts_found >= 1
    /\ Len(accumulated_context) > iteration_metadata[1].total_context_items

-----------------------------------------------------------------------------
(* EntityLinker.link_entities for one mention (graph_retriever.py)         *)
(* A node is its label, the value of its identifier property (sku, or      *)
(* license_sku on a License node) and its name. The store answers every    *)
(* request here; a failing store is part of retrieve_all above.            *)

MaxNodes == 3
FetchLimit == 2

GraphNodes ==
    [label : {"Panel", "License"},
     key : {<<"a","b">>, <<"a","b","c","e">>, <<"c","d","x","y">>},
     name : {<<"a","b">>, <<"a","b","c","d">>, <<"x","y">>}]

Graphs == {g \in SUBSET GraphNodes : Cardinality(g) <= MaxNodes}

Mentions ==
    [type : {"Panel", "License"},
     identifier : {<<>>, <<"a","b">>, <<"A","B">>, <<"a","b","c","d">>}]

\* The property the exact query compares first (lines 301-328)
IdField(entity_type) == IF entity_type = "License" THEN "license_sku" ELSE "sku"

\* First part of the UNION: nodes whose identifier property is the mention
SkuRows(nodes, entity_type, identifier) ==
    {n \in nodes : n.label = entity_type /\ n.key = identifier}

NameRowsUnguarded(nodes, entity_type, identifier) ==
    {n \in nodes : n.label = entity_type /\ n.name = identifier}

\* Second part: nodes whose name is the mention, if NOT EXISTS a node of the
\* first part
NameRows(nodes, entity_type, identifier) ==
    IF SkuRows(nodes, entity_type, identifier) = {}
    THEN {n \in nodes : n.label = entity_type /\ n.name = identifier}
    ELSE {}

NoRecord == [match_field |-> "none"]

\* _exact_match: the values it can return; result.single() gives one of
\* the records, whichever the store lists first
_exact_match(nodes, entity_type, identifier) ==
    LET records ==
            {[n |-> n, match_field |-> IdField(entity_type)] :
             n \in SkuRows(nodes, entity_type, identifier)}
            \cup {[n |-> n, match_field |-> "name"] :
                  n \in NameRows(nodes, entity_type, identifier)}
    IN  IF records = {} THEN {NoRecord} ELSE records

\* The larger of two scores, each a fraction num/den
ScoreMax(x, y) == IF x.num * y.den >= y.num * x.den THEN x ELSE y

\* Lines 365-371 for one property: containment counts 0.8, else the share
\* of common characters
PropScore(score, prop_value, identifier_lower) ==
    LET chars(t) == {t[i] : i \in 1..Len(t)}
        common_chars == Cardinality(chars(identifier_lower) \cap chars(prop_value))
        longer == IF Len(identifier_lower) >= Len(prop_value)
                  THEN Len(identifier_lower) ELSE Len(prop_value)
        contained == IF Contains(identifier_lower, prop_value)
                        \/ Contains(prop_value, identifier_lower)
                     THEN ScoreMax(score, [num |-> 4, den |-> 5])
                     ELSE score
    IN  ScoreMax(contained, [num |-> common_chars, den |-> longer])

\* Lines 352-371: the score of a node, over its identifier property and
\* then its name
NodeScore(node, identifier) ==
    LET identifier_lower == Lower(identifier)
        first == PropScore([num |-> 0, den |-> 1], Lower(node.key), identifier_lower)
    IN  IF Lower(node.key) = identifier_lower THEN [num |-> 1, den |-> 1]
        ELSE IF Lower(node.name) = identifier_lower THEN [num |-> 1, den |-> 1]
        ELSE PropScore(first, Lower(node.name), identifier_lower)

\* Line 373: score > 0.7
Above(score) == score.num * 10 > 7 * score.den

\* What "MATCH (n:type) RETURN n LIMIT 100" can return: the limit is scaled
\* to FetchLimit
Fetched(nodes, entity_type) ==
    LET typed == {n \in nodes : n.label = entity_type}
    IN  {f \in SUBSET typed :
            Cardinality(f) = (IF Cardinality(typed) <= FetchLimit
                              THEN Cardinality(typed) ELSE FetchLimit)}

\* _fuzzy_match on the fetched nodes: the matches that can stand first
\* after the sort by score
_fuzzy_match(fetched, identifier) ==
    LET matches == {n \in fetched : Above(NodeScore(n, identifier))}
    IN  {[node |-> n, score |-> NodeScore(n, identifier)] :
         n \in {m \in matches : \A o \in matches :
                   ScoreMax(NodeScore(m, identifier), NodeScore(o, identifier))
                       = NodeScore(m, identifier)}}

\* link_entities([entity]): the lists it can return
link_entities(nodes, entity) ==
    IF entity.type = "" \/ entity.identifier = <<>> THEN {<<>>}
    ELSE UNION {
           IF exact_match # NoRecord
           THEN {<<[mention |-> entity, data |-> exact_match.n,
                    _match_field |-> exact_match.match_field,
                    match_type |-> "exact"]>>}
           ELSE UNION {
                  LET fuzzy_matches == _fuzzy_match(fetched, entity.identifier)
                  IN  IF fuzzy_matches = {} THEN {<<>>}
                      ELSE {<<[mention |-> entity, data |-> m.node,
                               match_type |-> "fuzzy", score |-> m.score]>> :
                            m \in fuzzy_matches} :
                  fetched \in Fetched(nodes, entity.type)} :
           exact_match \in _exact_match(nodes, entity.type, entity.identifier)}

InitLink ==
    /\ PipelineIdle
    /\ CypherIdle
    /\ CacheIdle
    /\ given \in [nodes : Graphs, entity : Mentions]
    /\ returned = NotCalled

LinkEntities ==
    /\ returned = NotCalled
    /\ returned' \in {[linked |-> l] : l \in link_entities(given.nodes, given.entity)}
    /\ UNCHANGED given
    /\ UNCHANGED <<pipeVars, cypherVars, cacheVars>>

SpecLink == InitLink /\ [][LinkEntities]_vars

\* Nodes of the mention's type, and those of them whose identifier property
\* or name is the mention
Typed == {n \in given.nodes : n.label = given.entity.type}
KeyMatches == {n \in Typed : n.key = given.entity.identifier}
NameMatches == {n \in Typed : n.name = given.entity.identifier}
Linked == "linked" \in DOMAIN returned

\* C14: a mention equal to the identifier property of a node of its type is
\* linked to such a node with match_type exact, whatever the names of the
\* other nodes; a link through the name is made only when no node's
\* identifier property is the mention; a fuzzy link is made only when
\* neither an identifier property nor a name is the mention.
C14_IdentifierBeforeName ==
    (Linked /\ given.entity.identifier # <<>>) =>
        /\ KeyMatches # {} =>
              /\ Len(returned.linked) = 1
              /\ returned.linked[1].match_type = "exact"
              /\ returned.linked[1].data \in KeyMatches
        /\ \A i \in 1..Len(returned.linked) :
              /\ (returned.linked[i].match_type = "exact"
                  /\ returned.linked[i].data \notin KeyMatches)
                 => (KeyMatches = {} /\ returned.linked[i].data \in NameMatches)
              /\ returned.linked[i].match_type = "fuzzy"
                 => (KeyMatches = {} /\ NameMatches = {})

C14_Witness ==
    /\ Linked
    /\ KeyMatches # {}
    /\ NameMatches \ KeyMatches # {}
    /\ returned.linked[1].match_type = "exact"
    /\ returned.linked[1].data \in KeyMatches

\* C15: when exact matching finds nothing, the mention is linked to a node
\* of its type whose score is the maximum over all nodes of that type if
\* that maximum exceeds 0.7, and is not linked when no node of the type
\* scores above 0.7.
C15_BestAboveThreshold ==
    (Linked /\ given.entity.identifier # <<>> /\ KeyMatches = {} /\ NameMatches = {}) =>
        LET best(n) == \A o \in Typed :
                          ScoreMax(NodeScore(n, given.entity.identifier),
                                   NodeScore(o, given.entity.identifier))
                              = NodeScore(n, given.entity.identifier)
            some_above == \E n \in Typed : Above(NodeScore(n, given.entity.identifier))
        IN  IF some_above
            THEN /\ Len(returned.linked) = 1
                 /\ returned.linked[1].match_type = "fuzzy"
                 /\ returned.linked[1].data \in Typed
                 /\ best(returned.linked[1].data)
            ELSE returned.linked = <<>>

-----------------------------------------------------------------------------
(* GraphRetriever.retrieve_all on its own: the analyzer's output and what  *)
(* the graph store answers to each method                                  *)

InitRetrieve ==
    /\ PipelineIdle
    /\ CypherIdle
    /\ CacheIdle
    /\ \E kg \in KGOutputs, entities \in EntityForms :
         \E linked \in LinkAnswers(kg), path_results \in PathAnswers(kg),
            cypher_results \in CypherAnswers :
           \E triplet_results \in TripletAnswers(linked) :
              /\ entities = "empty list" => ~kg.mentions
              /\ given = [kg |-> kg, entities |-> entities, linked |-> linked,
                          path_results |-> path_results,
                          cypher_results |-> cypher_results,
                          triplet_results |-> triplet_results]
    /\ returned = NotCalled

RetrieveAll ==
    /\ returned = NotCalled
    /\ returned' = retrieve_all(given.entities, given.linked, given.path_results,
                                given.cypher_results, given.triplet_results)
    /\ UNCHANGED given
    /\ UNCHANGED <<pipeVars, cypherVars, cacheVars>>

SpecRetrieve == InitRetrieve /\ [][RetrieveAll]_vars

\* C16: when the graph store fails inside a retrieval method, retrieve_all
\* still returns; the failed method contributes nothing and the results of
\* every other method are in the list returned.
C16_FailureStaysInMethod ==
    (returned # NotCalled /\ given.entities # "empty list") =>
        /\ ~returned.raised
        /\ returned.results =
              OneBundle("entity_linking", given.linked.rows)
              \o OneBundle("path_retrieval", given.path_results.rows)
              \o OneBundle("cypher_retrieval", given.cypher_results.rows)
              \o OneBundle("triplet_retrieval", given.triplet_results.rows)

-----------------------------------------------------------------------------
(* EnhancedKGLinker.process_query on its own: the device mentions the      *)
(* pattern finds in the query and what the completion service answers      *)

InitAnalyzer ==
    /\ PipelineIdle
    /\ CypherIdle
    /\ CacheIdle
    /\ given \in [device_matches : DeviceMatches, reply : AnalyzerReplies]
    /\ returned = NotCalled

AnalyzeQuery ==
    /\ returned = NotCalled
    /\ returned' = EnhancedKGLinker_process_query(given.device_matches, given.reply)
    /\ UNCHANGED given
    /\ UNCHANGED <<pipeVars, cypherVars, cacheVars>>

SpecAnalyzer == InitAnalyzer /\ [][AnalyzeQuery]_vars

Analyzed == returned # NotCalled /\ "device_matches" \in DOMAIN given

\* C17: when the analyzer's completion call fails or its output cannot be
\* parsed into the expected structure, process_query does not raise and the
\* entities it returns are exactly the rule-derived ones: each carries the
\* rule provenance, and each rule recommendation and base requirement is
\* among them.
C17_DegradesToRuleDerived ==
    (/\ Analyzed
     /\ \/ given.reply.kind # "object"
        \/ given.reply.panels.type # "list"
        \/ \E i \in 1..Len(given.reply.panels.items) :
              given.reply.panels.items[i].type # "dict")
    => /\ ~returned.raised
       /\ LET e == returned.entities
              rule == returned.rule_based_extractions
          IN  /\ e.devices.items = <<>>
              /\ \A i \in 1..Len(e.panels.items) :
                    e.panels.items[i].source = "rule_based_enhancement"
              /\ \A i \in 1..Len(e.bases.items) :
                    e.bases.items[i].source = "rule_based_enhancement"
              /\ \A i \in 1..Len(rule.panel_recommendations) :
                    \E j \in 1..Len(e.panels.items) :
                       e.panels.items[j].suggested_sku =
                          rule.panel_recommendations[i].recommended_panel
              /\ \A i \in 1..Len(rule.detector_base_requirements) :
                    \E j \in 1..Len(e.bases.items) :
                       e.bases.items[j].required_for =
                          rule.detector_base_requirements[i].detector_type

\* C23: after the merge every model-derived entity is kept, and every
\* rule-derived item absent from the model-derived base (each extracted
\* device with its quantity, each panel recommendation, each detector-base
\* requirement) is among the merged entities exactly once, tagged as
\* rule-derived.
C23_MergeKeepsAndAppends ==
    (Analyzed /\ ~returned.raised)
    => LET llm == _extract_entities_with_llm(given.reply)
           e == returned.entities
           rule == returned.rule_based_extractions
           Once(items, Matches(_)) ==
               Cardinality({j \in 1..Len(items) :
                              /\ items[j].source = "rule_based_enhancement"
                              /\ Matches(items[j])}) = 1
           Absent(items, Matches(_)) ==
               ~\E j \in 1..Len(items) : Matches(items[j])
       IN  /\ SubSeq(e.panels.items, 1, Len(llm.panels.items)) = llm.panels.items
           /\ SubSeq(e.bases.items, 1, Len(llm.bases.items)) = llm.bases.items
           /\ SubSeq(e.devices.items, 1, Len(llm.devices.items)) = llm.devices.items
           /\ \A i \in 1..Len(rule.panel_recommendations) :
                 LET rec == rule.panel_recommendations[i]
                     Same(p) == p.suggested_sku = rec.recommended_panel
                 IN  Absent(llm.panels.items, Same) => Once(e.panels.items, Same)
           /\ \A i \in 1..Len(rule.detector_base_requirements) :
                 LET req == rule.detector_base_requirements[i]
                     Same(b) == b.required_for = req.detector_type
                 IN  Absent(llm.bases.items, Same) => Once(e.bases.items, Same)
           /\ \A i \in 1..Len(rule.entities) :
                 LET Same(d) == d.quantity = rule.entities[i].quantity
                 IN  Absent(llm.devices.items, Same) => Once(e.devices.items, Same)

\* C18: for every positive total of the extracted quantities, the class
\* recommended is the smallest of 4007ES, 4010ES, 4100ES whose capacity is
\* at least the total, and a class with a capacity below the total is never
\* recommended.
C18_SmallestSufficientClass ==
    (Analyzed /\ total_addressable_points(given.device_matches) > 0)
    => LET total == total_addressable_points(given.device_matches)
           recs == returned.rule_based_extractions.panel_recommendations
       IN  /\ Len(recs) = 1
           /\ _get_panel_capacity(recs[1].recommended_panel) >= total
           /\ \A sku \in {"4007ES", "4010ES", "4100ES"} :
                 _get_panel_capacity(sku) >= total
                    => _get_panel_capacity(recs[1].recommended_panel)
                          <= _get_panel_capacity(sku)

-----------------------------------------------------------------------------
(* The progressive context of a round (orchestrator.py 187-242)            *)

\* The lines one context item contributes: a heading with the confidence
\* and a line for each of its first three data items; items of the path
\* and query methods match neither branch and contribute nothing
_format_context_item(item) ==
    IF item.method \in {"entity_linking", "triplet_retrieval"}
    THEN <<[method |-> item.method, confidence |-> item.confidence,
            data |-> SubSeq(item.data, 1, Min(3, Len(item.data)))]>>
    ELSE <<>>

\* The item lines of the context string, headings left out
_format_context_progressive(context_items, iter) ==
    LET high_confidence == SelectSeq(context_items, LAMBDA item : item.confidence > 80)
        recent_findings ==
            SelectSeq(context_items,
                      LAMBDA item : ~(item.confidence > 80) /\ item.iteration = iter)
        last_five ==
            SubSeq(high_confidence,
                   IF Len(high_confidence) > 5 THEN Len(high_confidence) - 4 ELSE 1,
                   Len(high_confidence))
        RECURSIVE Format(_)
        Format(items) ==
            IF items = <<>> THEN <<>>
            ELSE _format_context_item(items[1]) \o Format(Tail(items))
    IN  Format(last_five) \o Format(recent_findings)

\* C21: the context handed to the analyzer at the start of a round holds
\* every accumulated item whose confidence exceeds 0.8 and every accumulated
\* item tagged with the round's iteration index, whatever its method.
C21_ContextHoldsEveryItem ==
    pc = "analyze" =>
        LET context == _format_context_progressive(accumulated_context, iteration)
        IN  \A i \in 1..Len(accumulated_context) :
               LET item == accumulated_context[i]
               IN  (item.confidence > 80 \/ item.iteration = iteration)
                   => \E j \in 1..Len(context) :
                         /\ context[j].method = item.method
                         /\ context[j].data = item.data

\* C24: in the result, each round's count of new facts is the number of
\* evidence items first added in that round, the counts add up to the
\* reported total of unique facts, and each running total is the sum of the
\* counts up to its round.
C24_CountsAddUp ==
    pc = "done" =>
        LET RECURSIVE SumNew(_)
            SumNew(k) ==
                IF k = 0 THEN 0
                ELSE iteration_metadata[k].new_facts_found + SumNew(k - 1)
            ItemsOf(rounds) ==
                UNION {Items(accumulated_context[i].data) :
                          i \in {j \in 1..Len(accumulated_context) :
                                    accumulated_context[j].iteration \in rounds}}
        IN  /\ \A k \in 1..Len(iteration_metadata) :
                  /\ iteration_metadata[k].new_facts_found =
                        Cardinality(ItemsOf({k}) \ ItemsOf(1..(k - 1)))
                  /\ iteration_metadata[k].total_context_items = SumNew(k)
            /\ SumNew(Len(iteration_metadata)) = result.unique_facts_discovered

-----------------------------------------------------------------------------
(* LightweightScoringFilter.score_and_filter_results (scoring_filter.py)   *)

MaxResults == 3

\* A retrieval result as the filter reads it.  data stands for the text of
\* the result, named by the value in hundredths that the similarity metrics
\* of _calculate_relevance_score give it against the query (0: no text);
\* metadata may or may not carry a confidence.
FilterItems ==
    [data : {0, 30, 50}, metadata : {EmptyDict, [confidence |-> 20], [confidence |-> 90]}]

FilterInputs == UNION {[1..n -> FilterItems] : n \in 0..MaxResults}

\* min(final_score, 1.0)
_calculate_relevance_score(a_result) == Min(a_result.data, 100)

PassesStrictly(relevance_score, min_relevance_score) ==
    relevance_score > min_relevance_score

\* line 54: relevance_score >= self.min_relevance_score
Passes(relevance_score, min_relevance_score) ==
    relevance_score >= min_relevance_score

\* The sort key of lines 63-66, times 1000
CombinedScore(x) ==
    Get(x, "relevance_score", 0) * 6 + Get(Get(x, "metadata", EmptyDict), "confidence", 50) * 4

\* list.sort(key, reverse=True): descending and stable
RECURSIVE SortDescending(_)
SortDescending(results) ==
    IF results = <<>> THEN <<>>
    ELSE LET sorted == SortDescending(SubSeq(results, 1, Len(results) - 1))
             x == results[Len(results)]
             before == SelectSeq(sorted, LAMBDA y : CombinedScore(y) >= CombinedScore(x))
             after == SelectSeq(sorted, LAMBDA y : CombinedScore(y) < CombinedScore(x))
         IN  before \o <<x>> \o after

\* What is returned, and the input list as the call leaves it
score_and_filter_results(min_relevance_score, results_given) ==
    LET RECURSIVE Scored(_)
        Scored(results) ==
            IF results = <<>> THEN <<>>
            ELSE LET relevance_score == _calculate_relevance_score(results[1])
                 IN  (IF Passes(relevance_score, min_relevance_score)
                      THEN <<[relevance_score |-> relevance_score] @@ results[1]>>
                      ELSE <<>>) \o Scored(Tail(results))
    IN  [results |-> SortDescending(Scored(results_given)),
         retrieval_results |-> results_given]

InitFilter ==
    /\ PipelineIdle
    /\ CypherIdle
    /\ CacheIdle
    /\ given \in [min_relevance_score : {30, 50}, retrieval_results : FilterInputs]
    /\ returned = NotCalled

ScoreAndFilter ==
    /\ returned = NotCalled
    /\ returned' = score_and_filter_results(given.min_relevance_score,
                                            given.retrieval_results)
    /\ UNCHANGED given
    /\ UNCHANGED <<pipeVars, cypherVars, cacheVars>>

SpecFilter == InitFilter /\ [][ScoreAndFilter]_vars

Filtered == returned # NotCalled /\ "min_relevance_score" \in DOMAIN given

\* C25: score_and_filter_results returns exactly the input items whose
\* relevance score is at least min_relevance_score, each annotated with that
\* score, in non-increasing order of 0.6 * relevance + 0.4 * confidence, and
\* the input items are left as they were.
C25_FilterAnnotateSort ==
    Filtered =>
        LET input == given.retrieval_results
            out == returned.results
            Stripped(x) == [f \in DOMAIN x \ {"relevance_score"} |-> x[f]]
            Times(items, x) == Cardinality({i \in 1..Len(items) : items[i] = x})
            passing == SelectSeq(input,
                         LAMBDA x : _calculate_relevance_score(x)
                                       >= given.min_relevance_score)
        IN  /\ Len(out) = Len(passing)
            /\ \A i \in 1..Len(out) :
                  /\ out[i].relevance_score = _calculate_relevance_score(Stripped(out[i]))
                  /\ Times([j \in 1..Len(out) |-> Stripped(out[j])], Stripped(out[i]))
                        = Times(passing, Stripped(out[i]))
            /\ \A i, j \in 1..Len(out) :
                  i < j => out[i].relevance_score * 6 + Get(out[i].metadata, "confidence", 50) * 4
                             >= out[j].relevance_score * 6 + Get(out[j].metadata, "confidence", 50) * 4
            /\ returned.retrieval_results = input

\* C25 happens: an item at the threshold is kept, one below it is dropped,
\* and the order of the kept ones differs from the order they came in
C25_Witness ==
    /\ Filtered
    /\ Len(returned.results) >= 2
    /\ Len(returned.results) < Len(given.retrieval_results)
    /\ \E i \in 1..Len(returned.results) :
          returned.results[i].relevance_score = given.min_relevance_score
    /\ \E i \in 1..Len(given.retrieval_results) :
          LET x == given.retrieval_results[i]
          IN  /\ _calculate_relevance_score(x) >= given.min_relevance_score
              /\ [relevance_score |-> _calculate_relevance_score(x)] @@ x
                    # returned.results[Cardinality({j \in 1..i :
                          _calculate_relevance_score(given.retrieval_results[j])
                             >= given.min_relevance_score})]

-----------------------------------------------------------------------------
(* RetrievalResultsCache (scoring_filter.py 234-271).  The object under    *)
(* study is held in given: cache is the dict of results, access_count the  *)
(* dict of counts as a sequence of <<key, count>> in insertion order (the  *)
(* order min() walks), recency the cached keys from the least to the most  *)
(* recently read or written one, ops the number of calls made so far.      *)

MaxSize == 2
MaxOps == 4

QueryHashes == {"h1", "h2", "h3"}
ResultLists == {"results A", "results B"}

CountOf(access_count, query_hash) ==
    LET at == {i \in 1..Len(access_count) : access_count[i][1] = query_hash}
    IN  IF at = {} THEN 0 ELSE access_count[CHOOSE i \in at : TRUE][2]

\* access_count[query_hash] = count: in place for a key of the dict, at the
\* end for a new one
SetCount(access_count, query_hash, count) ==
    IF \E i \in 1..Len(access_count) : access_count[i][1] = query_hash
    THEN [i \in 1..Len(access_count) |->
             IF access_count[i][1] = query_hash THEN <<query_hash, count>>
             ELSE access_count[i]]
    ELSE Append(access_count, <<query_hash, count>>)

Without(pairs, query_hash) == SelectSeq(pairs, LAMBDA p : p[1] # query_hash)

Touched(recency, query_hash) ==
    Append(SelectSeq(recency, LAMBDA k : k # query_hash), query_hash)

\* min(self.access_count.keys(), key=...): the first key, in insertion
\* order, with the smallest count
lru_key(access_count) ==
    access_count[CHOOSE i \in 1..Len(access_count) :
                    /\ \A j \in 1..Len(access_count) :
                          access_count[i][2] <= access_count[j][2]
                    /\ \A j \in 1..(i - 1) :
                          access_count[j][2] > access_count[i][2]][1]

IsFullBeyond(cache, max_size) == Cardinality(DOMAIN cache) > max_size

\* line 256: len(self.cache) >= self.max_size
IsFull(cache, max_size) == Cardinality(DOMAIN cache) >= max_size

RetrievalResultsCache_get(self, query_hash) ==
    IF query_hash \in DOMAIN self.cache
    THEN [self |-> [self EXCEPT
                      !.access_count = SetCount(@, query_hash,
                                                CountOf(@, query_hash) + 1),
                      !.recency = Touched(@, query_hash)],
          result |-> self.cache[query_hash]]
    ELSE [self |-> self, result |-> "None"]

RetrievalResultsCache_put(self, query_hash, results) ==
    LET evicts == IsFull(self.cache, self.max_size)
        gone == IF evicts THEN lru_key(self.access_count) ELSE "none"
        cache1 == [k \in DOMAIN self.cache \ {gone} |-> self.cache[k]]
        count1 == Without(self.access_count, gone)
        recency1 == SelectSeq(self.recency, LAMBDA k : k # gone)
    IN  [self |-> [self EXCEPT
                      !.cache = (query_hash :> results) @@ cache1,
                      !.access_count = SetCount(count1, query_hash, 1),
                      !.recency = Touched(recency1, query_hash)],
         evicted |-> gone]

RetrievalResultsCache_clear(self) ==
    [self EXCEPT !.cache = EmptyDict, !.access_count = <<>>, !.recency = <<>>]

InitResultsCache ==
    /\ PipelineIdle
    /\ CypherIdle
    /\ CacheIdle
    /\ \E max_size \in 1..MaxSize :
         given = [cache |-> EmptyDict, access_count |-> <<>>, max_size |-> max_size,
                  recency |-> <<>>, ops |-> 0]
    /\ returned = NotCalled

CacheGet ==
    /\ given.ops < MaxOps
    /\ \E query_hash \in QueryHashes :
         LET call == RetrievalResultsCache_get(given, query_hash)
         IN  /\ given' = [call.self EXCEPT !.ops = @ + 1]
             /\ returned' = [op |-> "get", query_hash |-> query_hash,
                             result |-> call.result, before |-> given]
    /\ UNCHANGED <<pipeVars, cypherVars, cacheVars>>

CachePut ==
    /\ given.ops < MaxOps
    /\ \E query_hash \in QueryHashes, results \in ResultLists :
         LET call == RetrievalResultsCache_put(given, query_hash, results)
         IN  /\ given' = [call.self EXCEPT !.ops = @ + 1]
             /\ returned' = [op |-> "put", query_hash |-> query_hash,
                             results |-> results, evicted |-> call.evicted,
                             before |-> given]
    /\ UNCHANGED <<pipeVars, cypherVars, cacheVars>>

CacheClear ==
    /\ given.ops < MaxOps
    /\ given' = [RetrievalResultsCache_clear(given) EXCEPT !.ops = @ + 1]
    /\ returned' = [op |-> "clear", before |-> given]
    /\ UNCHANGED <<pipeVars, cypherVars, cacheVars>>

NextResultsCache == CacheGet \/ CachePut \/ CacheClear

SpecResultsCache == InitResultsCache /\ [][NextResultsCache]_vars

\* C26: the entry put evicts from a full cache is the least recently used
\* one, the entry whose last get or put lies furthest in the past.
C26_EvictsLeastRecentlyUsed ==
    (/\ returned # NotCalled
     /\ returned.op = "put"
     /\ returned.evicted # "none")
    => returned.evicted = Head(returned.before.recency)

\* C27: with max_size >= 1 the cache never holds more than max_size
\* entries, the access counts are kept for exactly the cached keys, and a
\* get right after put(k, v) returns v.
C27_BoundedAndConsistent ==
    /\ Cardinality(DOMAIN given.cache) <= given.max_size
    /\ {given.access_count[i][1] : i \in 1..Len(given.access_count)}
          = DOMAIN given.cache
    /\ Len(given.access_count) = Cardinality(DOMAIN given.cache)
    /\ (returned # NotCalled /\ returned.op = "put")
          => RetrievalResultsCache_get(given, returned.query_hash).result
                = returned.results

\* C27 happens: a put made on a full cache of two entries
C27_Witness ==
    /\ returned # NotCalled
    /\ returned.op = "put"
    /\ returned.evicted # "none"
    /\ given.max_size = 2
    /\ Cardinality(DOMAIN given.cache) = 2

\* C28: put on a key already cached only replaces that key's value; every
\* other entry is still there with its value, also when the cache is full.
C28_PutExistingKeepsOthers ==
    (/\ returned # NotCalled
     /\ returned.op = "put"
     /\ returned.query_hash \in DOMAIN returned.before.cache)
    => \A k \in DOMAIN returned.before.cache \ {returned.query_hash} :
          /\ k \in DOMAIN given.cache
          /\ given.cache[k] = returned.before.cache[k]

-----------------------------------------------------------------------------
(* Two LLMCache instances over one directory: one runs save_response, the  *)
(* other is being constructed and runs _cleanup_expired.  given holds the  *)
(* position of each and the sweep's locals; a file that was opened for     *)
(* writing and not yet written out is one json.load fails on.              *)

CacheKeys == {_generate_cache_key(c.prompt, c.model, c.kwargs) : c \in DirectCalls}

\* The file between open(cache_file, 'w') and the end of json.dump
BeingWritten(response, t) ==
    [CachedResponse(response, t) EXCEPT !.damage = "unparsable"]

NothingRead == [loaded |-> FALSE]

InitShared ==
    /\ PipelineIdle
    /\ CypherIdle
    /\ now = MaxTime
    /\ stats = ZeroStats
    /\ ttl_seconds = MaxTtl
    /\ max_cache_size_bytes = MaxBudget
    /\ last_call = NoCall
    /\ stored = [r \in Requests |-> NeverStored]
    /\ calls = 0
    /\ \E present \in SUBSET CacheKeys :
         files \in [present -> {CachedResponse(r, t) : r \in Responses,
                                                        t \in 0..(MaxTime - 1)}]
    /\ \E cache_key \in CacheKeys, response \in Responses :
         given = [cache_key |-> cache_key, response |-> response,
                  save |-> "start", sweep |-> "start", listed |-> {},
                  read |-> NothingRead, unlinked |-> FALSE]
    /\ returned = NotCalled

\* save_response line 110: open(cache_file, 'w') creates or truncates
SaveOpen ==
    /\ given.save = "start"
    /\ files' = (given.cache_key :> BeingWritten(given.response, now)) @@ files
    /\ given' = [given EXCEPT !.save = "opened", !.unlinked = FALSE]
    /\ UNCHANGED <<now, stats, ttl_seconds, max_cache_size_bytes, last_call,
                   stored, calls, returned>>
    /\ UNCHANGED <<pipeVars, cypherVars>>

\* save_response lines 111-113: json.dump and the close of the file; written
\* to a file unlinked meanwhile, the text is in no directory
SaveDump ==
    /\ given.save = "opened"
    /\ files' = IF given.unlinked THEN files
                ELSE [files EXCEPT ![given.cache_key] =
                                      CachedResponse(given.response, now)]
    /\ stats' = [stats EXCEPT !.saves = @ + 1]
    /\ given' = [given EXCEPT !.save = "written"]
    /\ UNCHANGED <<now, ttl_seconds, max_cache_size_bytes, last_call,
                   stored, calls, returned>>
    /\ UNCHANGED <<pipeVars, cypherVars>>

\* save_response line 117: _manage_cache_size
SaveManage ==
    /\ given.save = "written"
    /\ \E managed \in _manage_cache_size(files, stats) :
         /\ files' = managed.files
         /\ stats' = managed.stats
    /\ given' = [given EXCEPT !.save = "done"]
    /\ UNCHANGED <<now, ttl_seconds, max_cache_size_bytes, last_call,
                   stored, calls, returned>>
    /\ UNCHANGED <<pipeVars, cypherVars>>

\* _cleanup_expired line 141: the files glob lists
SweepGlob ==
    /\ given.sweep = "start"
    /\ given' = [given EXCEPT !.sweep = "listed", !.listed = DOMAIN files]
    /\ UNCHANGED <<cacheVars, returned>>
    /\ UNCHANGED <<pipeVars, cypherVars>>

\* _cleanup_expired lines 142-146 and 150: open and load the next file and
\* decide; a file that cannot be opened or loaded is to be removed
SweepLoad ==
    /\ given.sweep = "listed"
    /\ ~given.read.loaded
    /\ \E cache_file \in given.listed :
         LET cached_data == FileAt(files, cache_file)
         IN  given' = [given EXCEPT
                          !.listed = @ \ {cache_file},
                          !.read = [loaded |-> TRUE,
                                    cache_file |-> cache_file,
                                    unlink |->
                                       \/ cached_data.damage # "none"
                                       \/ now - cached_data.timestamp > ttl_seconds]]
    /\ UNCHANGED <<cacheVars, returned>>
    /\ UNCHANGED <<pipeVars, cypherVars>>

\* _cleanup_expired lines 147 and 153-157: cache_file.unlink(), or on to the
\* next file
SweepUnlink ==
    /\ given.sweep = "listed"
    /\ given.read.loaded
    /\ files' = IF given.read.unlink THEN Remove(files, given.read.cache_file)
                ELSE files
    /\ given' = [given EXCEPT
                    !.read = NothingRead,
                    !.unlinked = @ \/ (/\ given.read.unlink
                                       /\ given.read.cache_file = given.cache_key
                                       /\ given.save = "opened")]
    /\ UNCHANGED <<now, stats, ttl_seconds, max_cache_size_bytes, last_call,
                   stored, calls, returned>>
    /\ UNCHANGED <<pipeVars, cypherVars>>

\* the loop of _cleanup_expired has gone through the list
SweepEnd ==
    /\ given.sweep = "listed"
    /\ ~given.read.loaded
    /\ given.listed = {}
    /\ given' = [given EXCEPT !.sweep = "done"]
    /\ UNCHANGED <<cacheVars, returned>>
    /\ UNCHANGED <<pipeVars, cypherVars>>

NextShared ==
    \/ SaveOpen \/ SaveDump \/ SaveManage
    \/ SweepGlob \/ SweepLoad \/ SweepUnlink \/ SweepEnd

SpecShared == InitShared /\ [][NextShared]_vars

\* C30: when save_response of one instance and the startup sweep of another
\* have both finished, the unexpired entry save_response wrote exists,
\* complete; the sweep has deleted expired entries only.
C30_SweepSparesFreshEntry ==
    (/\ given.save = "done"
     /\ given.sweep = "done"
     /\ FileSize(given.response) <= max_cache_size_bytes
     /\ 0 < ttl_seconds)
    => /\ given.cache_key \in DOMAIN files
       /\ files[given.cache_key] = CachedResponse(given.response, now)
=============================================================================
